---- MODULE Spec2Model ----
(***************************************************************************)
(* vr-mpp-osc-sender: a UI thread (eframe App::update) edits a mutex       *)
(* guarded AppState; a background engine thread snapshots it each loop     *)
(* iteration and emits OSC press/release datagrams separated by sleeps.    *)
(* Time is counted in milliseconds; sends and lock operations take no      *)
(* time, sleeps take exactly their duration.                               *)
(***************************************************************************)
EXTENDS Integers, FiniteSets, Sequences, TLC

VARIABLES
    state,          \* AppState behind Arc<Mutex<..>>: interval_ms, hold_ms, is_sending, dest_port
    lock,           \* owner of the Mutex: "none", "engine" or "ui"
    app,            \* OscSenderApp fields on the UI thread: interval_ms, hold_ms, checked, port
    uipc,           \* position of the UI thread inside update()
    pc,             \* position of the engine thread
    interval,       \* engine locals bound by the snapshot tuple (main.rs:43)
    hold,
    sending,
    port,
    prev_sending,   \* engine local (main.rs:40)
    dur,            \* argument of the thread::sleep the engine is in
    rem,            \* milliseconds left of that sleep
    splits,         \* how often the current sleep has been observed part-way
    lastVal,        \* history: value and port of the most recent emission (-1: none)
    lastPort,
    lastOk,         \* history: the emission made at this instant went out (TRUE when none)
    iterPackets,    \* history: emissions attempted since the current snapshot
    prevSnapSending,\* history: `sending` of the previous iteration's snapshot
    stateAtLock,    \* history: AppState when the engine acquired the lock
    edge,           \* history: bookkeeping per true->false write of is_sending
    sinceDisable,   \* history: ms since a disable the engine still has to act on (-1: none)
    sincePress,     \* history: ms since the latest press (-1: none in this run of pulses)
    pressGap,       \* history: ms between the two latest presses (-1: not measured)
    relGap,         \* history: ms between the latest press and its release (-1: none)
    stable,         \* history: AppState unwritten since the current snapshot
    stablePrev,     \* history: AppState unwritten during the previous iteration
    sinceEnable,    \* history: ms since an enable the engine has not yet pressed for (-1: none)
    lastNudge       \* history: argument and outcome of the nudge_port call in progress

vars == << state, lock, app, uipc, pc, interval, hold, sending, port, prev_sending,
           dur, rem, splits, lastVal, lastPort, lastOk, iterPackets, prevSnapSending,
           stateAtLock, edge, sinceDisable, sincePress, pressGap,
           relGap, stable, stablePrev, sinceEnable, lastNudge >>

hist == << lastVal, lastPort, lastOk, iterPackets, prevSnapSending, stateAtLock, edge,
           sinceDisable, sincePress, pressGap, relGap, stable, stablePrev,
           sinceEnable >>

----------------------------------------------------------------------------
(* Program constants *)

DefaultInterval == 1000
DefaultHold == 80
DefaultPort == 9000
IntervalMin == 10
IntervalMax == 2000
HoldMin == 10
HoldMax == 500
PortMax == 65534
U16Mod == 65536          \* `as u16`
I32Max == 2147483647     \* `delta: i32`; the least i32 is -I32Max - 1

(* Bounds of the model *)

SliderSamples == 1      \* sample points of each slider range, besides its default
MaxNudges == 1          \* the port is explored up to this many steps above its default
MaxSplits == 1          \* SpecTimed: UI events fall at up to this many interior points of a sleep
CoerceMax == 2          \* interval_ms and hold_ms range over 0..CoerceMax in SpecCoerce

Max(a, b) == IF a >= b THEN a ELSE b
Min(a, b) == IF a <= b THEN a ELSE b

TimeCap == IntervalMax + HoldMax + 1

Samples(lo, hi) ==
    {lo} \cup { lo + ((hi - lo) * k) \div (SliderSamples - 1) : k \in 1 .. SliderSamples - 1 }

IntervalValues == Samples(IntervalMin, IntervalMax) \cup {DefaultInterval}
HoldValues == Samples(HoldMin, HoldMax) \cup {DefaultHold}

Outcomes == {"sent", "encode_err", "send_err"}

NoEdge == [seen |-> FALSE, rel |-> 0, disRel |-> 0]

NoNudge == [from |-> -1, delta |-> 0, wrote |-> FALSE]

----------------------------------------------------------------------------
(* Pure helpers of the engine loop *)

SaturatingSub(a, b) == IF a >= b THEN a - b ELSE 0

\* (variant: the hold is read from AppState again when the sleep starts)
HoldSleepShared(hold_ms) == Max(state.hold_ms, 1)

HoldSleep(hold_ms) == Max(hold_ms, 1)

\* (variant: the rest does not take the hold off the interval)
RestSleepWholeInterval(i, h) == Max(i, 1)

RestSleep(i, h) == Max(SaturatingSub(i, h), 1)

\* (variant: the idle sleep is not coerced)
IdleSleepRaw(i) == i

IdleSleep(i) == Max(i, 1)

\* send_value: builds the message, and sends it when the encoding succeeded;
\* both failures are dropped and the caller continues.
\* (variant: a failure is unwrapped instead of dropped)
SendValueUnwrap(p, value, outcome) ==
    [val |-> value, port |-> p, ok |-> (outcome = "sent"), panic |-> (outcome # "sent")]

SendValue(p, value, outcome) ==
    [val |-> value, port |-> p, ok |-> (outcome = "sent"), panic |-> FALSE]

\* send_click passes its own `port` parameter to the release
\* (variant: the release reads the shared port again)
ClickReleasePortShared(p) == state.dest_port

ClickReleasePort(p) == p

\* `prev_sending = true` after send_click
\* (variant: the pulse is not recorded)
PrevAfterPulseUnset == FALSE

PrevAfterPulse == TRUE

\* `if prev_sending`
\* (variant: the release is sent on every disabled iteration)
ShouldReleaseAlways(prev) == TRUE

ShouldRelease(prev) == prev

\* `prev_sending = sending`
\* (variant: prev_sending keeps its value on the disabled path)
PrevAfterIdleKept(s) == prev_sending

PrevAfterIdle(s) == s

\* Mutex::lock succeeds for a thread only when nobody owns the mutex
EngineMayLock == lock = "none"

\* (variant: the UI writes the record without the mutex)
UiMayLockAnyway == TRUE

UiMayLock == lock = "none"

\* `if sending`
\* (variant: the branch tests prev_sending)
SnapshotBranchOnPrev(s) == IF prev_sending THEN "press" ELSE "check"

SnapshotBranch(s) == IF s THEN "press" ELSE "check"

\* the MutexGuard is a temporary of the snapshot block: it is dropped where the
\* block ends, before `if sending`
\* (variant: the guard is bound to a name that lives to the end of the iteration)
GuardAfterSnapshotHeld == "engine"

GuardAfterSnapshot == "none"

\* the four assignments the UI makes under the lock
WriteInterval(s, v) == [s EXCEPT !.interval_ms = v]

\* (variant: the hold slider assigns the interval field)
WriteHoldIntoInterval(s, v) == [s EXCEPT !.interval_ms = v]

WriteHold(s, v) == [s EXCEPT !.hold_ms = v]

\* (variant: the checkbox can only switch the pulses on)
WriteSendingTrue(s, v) == [s EXCEPT !.is_sending = TRUE]

WriteSending(s, v) == [s EXCEPT !.is_sending = v]

WritePort(s, v) == [s EXCEPT !.dest_port = v]

\* add_enabled_ui(!self.checked, ..)
NudgeButtonsEnabled(checked) == ~checked

\* nudge_port from the two `if`s on: the clamped `next`, `& !1`, `as u16`
\* (variant: the clamp stops at u16::MAX and the low bit is kept)
NudgeClampUnmasked(next) ==
    LET next1 == IF next < 0 THEN 0 ELSE next
    IN  IF next1 > U16Mod - 1 THEN U16Mod - 1 ELSE next1

NudgeClamp(next) ==
    LET next1 == IF next < 0 THEN 0 ELSE next
        next2 == IF next1 > PortMax THEN PortMax ELSE next1
    IN  (next2 - (next2 % 2)) % U16Mod

\* nudge_port where `current + delta` fits an i32
NudgeSnap(current, delta) == NudgeClamp(current + delta)

\* `current + delta` is an i32 addition of a port (0 .. 65535) and delta: past
\* I32Max it panics where overflow checks are compiled in and wraps by 2^32
\* where they are not
NudgeOverflows(current, delta) == delta > I32Max - current

NudgeWrapped(current, delta) == (current - I32Max - 1) + (delta - I32Max - 1)

NudgeOutcomes(current, delta) ==
    IF NudgeOverflows(current, delta)
    THEN { [panic |-> TRUE, snapped |-> current],
           [panic |-> FALSE, snapped |-> NudgeClamp(NudgeWrapped(current, delta))] }
    ELSE { [panic |-> FALSE, snapped |-> NudgeSnap(current, delta)] }

\* `if snapped != self.port`
\* (variant: the port is stored and written on every click)
NudgeWritesAlways(snapped, current) == TRUE

NudgeWrites(snapped, current) == snapped # current

----------------------------------------------------------------------------
(* History bookkeeping *)

Elapse(t, d) == IF t = -1 THEN -1 ELSE Min(t + d, TimeCap)

Bump(n) == Min(n + 1, 2)

Emit(r) ==
    /\ lastVal' = r.val
    /\ lastPort' = r.port
    /\ lastOk' = r.ok
    /\ iterPackets' = Bump(iterPackets)

AfterSend(r, next) == IF r.panic THEN "panicked" ELSE next

----------------------------------------------------------------------------
Init ==
    /\ state = [interval_ms |-> DefaultInterval, hold_ms |-> DefaultHold,
                is_sending |-> FALSE, dest_port |-> DefaultPort]
    /\ lock = "none"
    /\ app = [interval_ms |-> DefaultInterval, hold_ms |-> DefaultHold,
              checked |-> FALSE, port |-> DefaultPort]
    /\ uipc = "idle"
    /\ pc = "bind"
    /\ interval = 0
    /\ hold = 0
    /\ sending = FALSE
    /\ port = 0
    /\ prev_sending = FALSE
    /\ dur = 0
    /\ rem = 0
    /\ splits = 0
    /\ lastVal = -1
    /\ lastPort = 0
    /\ lastOk = TRUE
    /\ iterPackets = 0
    /\ prevSnapSending = FALSE
    /\ stateAtLock = state
    /\ edge = NoEdge
    /\ sinceDisable = -1
    /\ sincePress = -1
    /\ pressGap = -1
    /\ relGap = -1
    /\ stable = TRUE
    /\ stablePrev = TRUE
    /\ sinceEnable = -1
    /\ lastNudge = NoNudge

----------------------------------------------------------------------------
(* Engine thread *)

EngineBindOk ==
    /\ pc = "bind"
    /\ pc' = "snap"
    /\ UNCHANGED << state, lock, app, uipc, interval, hold, sending, port,
                    prev_sending, dur, rem, splits, hist, lastNudge >>

\* .expect() panics the spawned thread; the thread that runs the UI is another one
EngineBindFail ==
    /\ pc = "bind"
    /\ pc' = "panicked"
    /\ UNCHANGED << state, lock, app, uipc, interval, hold, sending, port,
                    prev_sending, dur, rem, splits, hist, lastNudge >>

EngineLock ==
    /\ pc = "snap"
    /\ EngineMayLock
    /\ lock' = "engine"
    /\ pc' = "copy_interval"
    /\ stateAtLock' = state
    /\ prevSnapSending' = sending
    /\ iterPackets' = 0
    /\ stablePrev' = stable
    /\ stable' = TRUE
    /\ UNCHANGED << state, app, uipc, interval, hold, sending, port, prev_sending,
                    dur, rem, splits, lastVal, lastPort, lastOk, edge, sinceDisable,
                    sincePress, pressGap, relGap,
                    sinceEnable, lastNudge >>

EngineCopyInterval ==
    /\ pc = "copy_interval"
    /\ interval' = state.interval_ms
    /\ pc' = "copy_hold"
    /\ UNCHANGED << state, lock, app, uipc, hold, sending, port, prev_sending,
                    dur, rem, splits, hist, lastNudge >>

EngineCopyHold ==
    /\ pc = "copy_hold"
    /\ hold' = state.hold_ms
    /\ pc' = "copy_sending"
    /\ UNCHANGED << state, lock, app, uipc, interval, sending, port, prev_sending,
                    dur, rem, splits, hist, lastNudge >>

EngineCopySending ==
    /\ pc = "copy_sending"
    /\ sending' = state.is_sending
    /\ pc' = "copy_port"
    /\ UNCHANGED << state, lock, app, uipc, interval, hold, port, prev_sending,
                    dur, rem, splits, hist, lastNudge >>

\* the last field is copied, the guard is dropped, and `if sending` branches
EngineCopyPort ==
    /\ pc = "copy_port"
    /\ port' = state.dest_port
    /\ lock' = GuardAfterSnapshot
    /\ pc' = SnapshotBranch(sending)
    /\ UNCHANGED << state, app, uipc, interval, hold, sending, prev_sending,
                    dur, rem, splits, hist, lastNudge >>

EnginePress(o) ==
    LET r == SendValue(port, 1, o) IN
    /\ pc = "press"
    /\ Emit(r)
    /\ pc' = AfterSend(r, "hold")
    /\ dur' = HoldSleep(hold)
    /\ rem' = dur'
    /\ splits' = 0
    /\ pressGap' = IF stable /\ stablePrev THEN sincePress ELSE -1
    /\ sincePress' = 0
    /\ relGap' = -1
    /\ sinceEnable' = -1
    /\ UNCHANGED << state, lock, app, uipc, interval, hold, sending, port,
                    prev_sending, prevSnapSending, stateAtLock, edge, sinceDisable,
                    stable, stablePrev,
                    lastNudge >>

EngineRelease(o) ==
    LET r == SendValue(ClickReleasePort(port), 0, o) IN
    /\ pc = "hold"
    /\ rem = 0
    /\ Emit(r)
    /\ relGap' = sincePress
    /\ pressGap' = -1
    /\ prev_sending' = PrevAfterPulse
    /\ pc' = AfterSend(r, "rest")
    /\ dur' = RestSleep(interval, hold)
    /\ rem' = dur'
    /\ splits' = 0
    /\ edge' = IF edge.seen THEN [edge EXCEPT !.rel = Bump(@)] ELSE edge
    /\ UNCHANGED << state, lock, app, uipc, interval, hold, sending, port,
                    prevSnapSending, stateAtLock, sinceDisable, sincePress, stable, stablePrev,
                    sinceEnable, lastNudge >>

\* `continue`
EngineRestDone ==
    /\ pc = "rest"
    /\ rem = 0
    /\ pc' = "snap"
    /\ relGap' = -1
    /\ dur' = 0
    /\ UNCHANGED << state, lock, app, uipc, interval, hold, sending, port,
                    prev_sending, rem, splits, lastVal, lastPort, lastOk,
                    iterPackets, prevSnapSending, stateAtLock, edge, sinceDisable,
                    sincePress, pressGap, stable, stablePrev,
                    sinceEnable, lastNudge >>

EngineDisableRelease(o) ==
    LET r == SendValue(port, 0, o) IN
    /\ pc = "check"
    /\ ShouldRelease(prev_sending)
    /\ Emit(r)
    /\ prev_sending' = PrevAfterIdle(sending)
    /\ pc' = AfterSend(r, "idle")
    /\ dur' = IdleSleep(interval)
    /\ rem' = dur'
    /\ splits' = 0
    /\ edge' = IF edge.seen
               THEN [edge EXCEPT !.rel = Bump(@), !.disRel = Bump(@)]
               ELSE edge
    /\ sinceDisable' = -1
    /\ sincePress' = -1
    /\ UNCHANGED << state, lock, app, uipc, interval, hold, sending, port,
                    prevSnapSending, stateAtLock, pressGap, relGap,
                    stable, stablePrev,
                    sinceEnable, lastNudge >>

EngineNoRelease ==
    /\ pc = "check"
    /\ ~ShouldRelease(prev_sending)
    /\ prev_sending' = PrevAfterIdle(sending)
    /\ pc' = "idle"
    /\ dur' = IdleSleep(interval)
    /\ rem' = dur'
    /\ splits' = 0
    /\ sincePress' = -1
    /\ UNCHANGED << state, lock, app, uipc, interval, hold, sending, port,
                    lastVal, lastPort, lastOk, iterPackets, prevSnapSending,
                    stateAtLock, edge, sinceDisable, pressGap, relGap,
                    stable, stablePrev,
                    sinceEnable, lastNudge >>

EngineIdleDone ==
    /\ pc = "idle"
    /\ rem = 0
    /\ pc' = "snap"
    /\ dur' = 0
    /\ UNCHANGED << state, lock, app, uipc, interval, hold, sending, port,
                    prev_sending, rem, splits, hist, lastNudge >>

\* thread::sleep: d milliseconds of the current sleep pass
SleepPcs == {"hold", "rest", "idle"}

AdvanceChoices ==
    {rem} \cup (IF splits < MaxSplits /\ rem >= 2 THEN {rem \div 2} ELSE {})

Advance(d) ==
    /\ pc \in SleepPcs
    /\ rem > 0
    /\ d \in AdvanceChoices
    /\ rem' = rem - d
    /\ splits' = IF d = rem THEN splits ELSE splits + 1
    /\ sinceDisable' = Elapse(sinceDisable, d)
    /\ sincePress' = Elapse(sincePress, d)
    /\ lastOk' = TRUE
    /\ sinceEnable' = Elapse(sinceEnable, d)
    /\ UNCHANGED << state, lock, app, uipc, pc, interval, hold, sending, port,
                    prev_sending, dur, lastVal, lastPort, iterPackets,
                    prevSnapSending, stateAtLock, edge, pressGap,
                    relGap, stable, stablePrev,
                    lastNudge >>

----------------------------------------------------------------------------
(* UI thread: App::update, one widget event per frame *)

\* the ports the buttons are followed to: MaxNudges steps above the default, and
\* MaxNudges steps around either end of the range
PortWindow ==
    (DefaultPort .. DefaultPort + 2 * MaxNudges)
        \cup (0 .. 2 * MaxNudges)
        \cup (PortMax - 2 * MaxNudges .. U16Mod - 1)

UiSliderInterval(v) ==
    /\ uipc = "idle"
    /\ v \in IntervalValues \ {app.interval_ms}
    /\ app' = [app EXCEPT !.interval_ms = v]
    /\ uipc' = "lock_interval"
    /\ UNCHANGED << state, lock, pc, interval, hold, sending, port, prev_sending,
                    dur, rem, splits, hist, lastNudge >>

UiSliderHold(v) ==
    /\ uipc = "idle"
    /\ v \in HoldValues \ {app.hold_ms}
    /\ app' = [app EXCEPT !.hold_ms = v]
    /\ uipc' = "lock_hold"
    /\ UNCHANGED << state, lock, pc, interval, hold, sending, port, prev_sending,
                    dur, rem, splits, hist, lastNudge >>

UiCheckbox ==
    /\ uipc = "idle"
    /\ app' = [app EXCEPT !.checked = ~app.checked]
    /\ uipc' = "lock_sending"
    /\ UNCHANGED << state, lock, pc, interval, hold, sending, port, prev_sending,
                    dur, rem, splits, hist, lastNudge >>

\* a "-" or "+" click: nudge_port(delta) up to the point where it asks for the lock
\* a panic in update() unwinds the main thread: the process, and the engine
\* thread with it, is over
UiNudge(delta) ==
    /\ uipc = "idle"
    /\ NudgeButtonsEnabled(app.checked)
    /\ \E r \in NudgeOutcomes(app.port, delta) :
          /\ r.snapped \in PortWindow
          /\ IF r.panic
             THEN /\ uipc' = "panicked"
                  /\ pc' = "panicked"
                  /\ lastNudge' = [from |-> app.port, delta |-> delta, wrote |-> FALSE]
                  /\ UNCHANGED app
             ELSE IF NudgeWrites(r.snapped, app.port)
             THEN /\ app' = [app EXCEPT !.port = r.snapped]
                  /\ uipc' = "lock_port"
                  /\ lastNudge' = [from |-> app.port, delta |-> delta, wrote |-> TRUE]
                  /\ UNCHANGED pc
             ELSE /\ lastNudge' = [from |-> app.port, delta |-> delta, wrote |-> FALSE]
                  /\ UNCHANGED << app, uipc, pc >>
    /\ UNCHANGED << state, lock, interval, hold, sending, port, prev_sending,
                    dur, rem, splits, hist >>

UiLock ==
    /\ uipc \in {"lock_interval", "lock_hold", "lock_sending", "lock_port"}
    /\ UiMayLock
    /\ lock' = "ui"
    /\ uipc' = CASE uipc = "lock_interval" -> "write_interval"
                 [] uipc = "lock_hold" -> "write_hold"
                 [] uipc = "lock_sending" -> "write_sending"
                 [] uipc = "lock_port" -> "write_port"
    /\ UNCHANGED << state, app, pc, interval, hold, sending, port, prev_sending,
                    dur, rem, splits, hist, lastNudge >>

UiWriteInterval ==
    /\ uipc = "write_interval"
    /\ state' = WriteInterval(state, app.interval_ms)
    /\ lock' = "none"
    /\ uipc' = "idle"
    /\ stable' = FALSE
    /\ UNCHANGED << app, pc, interval, hold, sending, port, prev_sending, dur, rem,
                    splits, lastVal, lastPort, lastOk, iterPackets, prevSnapSending,
                    stateAtLock, edge, sinceDisable, sincePress,
                    pressGap, relGap, stablePrev,
                    sinceEnable, lastNudge >>

UiWriteHold ==
    /\ uipc = "write_hold"
    /\ state' = WriteHold(state, app.hold_ms)
    /\ lock' = "none"
    /\ uipc' = "idle"
    /\ stable' = FALSE
    /\ UNCHANGED << app, pc, interval, hold, sending, port, prev_sending, dur, rem,
                    splits, lastVal, lastPort, lastOk, iterPackets, prevSnapSending,
                    stateAtLock, edge, sinceDisable, sincePress,
                    pressGap, relGap, stablePrev,
                    sinceEnable, lastNudge >>

\* the write of is_sending; a true->false write opens a disable edge (closed by the
\* next true write), which the engine has to act on when its latest snapshot saw
\* is_sending = true
UiWriteSending ==
    LET falling == state.is_sending /\ ~app.checked
        rising == ~state.is_sending /\ app.checked
        pending == falling /\ sending
    IN
    /\ uipc = "write_sending"
    /\ state' = WriteSending(state, app.checked)
    /\ lock' = "none"
    /\ uipc' = "idle"
    /\ stable' = FALSE
    /\ edge' = IF falling THEN [seen |-> TRUE, rel |-> 0, disRel |-> 0] ELSE NoEdge
    /\ sinceDisable' = IF pending THEN 0 ELSE -1
    /\ sinceEnable' = IF rising THEN 0 ELSE -1
    /\ UNCHANGED << app, pc, interval, hold, sending, port, prev_sending, dur, rem,
                    splits, lastVal, lastPort, lastOk, iterPackets, prevSnapSending,
                    stateAtLock, sincePress, pressGap, relGap, stablePrev,
                    lastNudge >>

UiWritePort ==
    /\ uipc = "write_port"
    /\ state' = WritePort(state, app.port)
    /\ lock' = "none"
    /\ uipc' = "idle"
    /\ stable' = FALSE
    /\ lastNudge' = NoNudge
    /\ UNCHANGED << app, pc, interval, hold, sending, port, prev_sending, dur, rem,
                    splits, lastVal, lastPort, lastOk, iterPackets, prevSnapSending,
                    stateAtLock, edge, sinceDisable, sincePress,
                    pressGap, relGap, stablePrev,
                    sinceEnable >>

----------------------------------------------------------------------------
Next ==
    \/ EngineBindOk
    \/ EngineBindFail
    \/ EngineLock
    \/ EngineCopyInterval
    \/ EngineCopyHold
    \/ EngineCopySending
    \/ EngineCopyPort
    \/ \E o \in Outcomes : EnginePress(o)
    \/ \E o \in Outcomes : EngineRelease(o)
    \/ EngineRestDone
    \/ \E o \in Outcomes : EngineDisableRelease(o)
    \/ EngineNoRelease
    \/ EngineIdleDone
    \/ Advance(rem)
    \/ \E v \in IntervalValues : UiSliderInterval(v)
    \/ \E v \in HoldValues : UiSliderHold(v)
    \/ UiCheckbox
    \/ \E delta \in {-2, 2} : UiNudge(delta)
    \/ UiLock
    \/ UiWriteInterval
    \/ UiWriteHold
    \/ UiWriteSending
    \/ UiWritePort

Spec == Init /\ [][Next]_vars

\* The same program with the port buttons left alone and with UI events falling
\* inside the engine's sleeps as well as at their ends.
NextTimed ==
    \/ EngineBindOk
    \/ EngineBindFail
    \/ EngineLock
    \/ EngineCopyInterval
    \/ EngineCopyHold
    \/ EngineCopySending
    \/ EngineCopyPort
    \/ \E o \in Outcomes : EnginePress(o)
    \/ \E o \in Outcomes : EngineRelease(o)
    \/ EngineRestDone
    \/ \E o \in Outcomes : EngineDisableRelease(o)
    \/ EngineNoRelease
    \/ EngineIdleDone
    \/ \E d \in AdvanceChoices : Advance(d)
    \/ \E v \in IntervalValues : UiSliderInterval(v)
    \/ \E v \in HoldValues : UiSliderHold(v)
    \/ UiCheckbox
    \/ UiLock
    \/ UiWriteInterval
    \/ UiWriteHold
    \/ UiWriteSending

SpecTimed == Init /\ [][NextTimed]_vars


\* The engine loop on every pair of unsigned interval_ms and hold_ms up to
\* CoerceMax: AppState starts with the pair, the sliders (whose ranges exclude
\* these values) are left alone, the checkbox turns the pulses on and off.
CoerceInputs == 0 .. CoerceMax

InitCoerce ==
    /\ state \in [interval_ms : CoerceInputs, hold_ms : CoerceInputs,
                  is_sending : {FALSE}, dest_port : {DefaultPort}]
    /\ lock = "none"
    /\ app = [interval_ms |-> state.interval_ms, hold_ms |-> state.hold_ms,
              checked |-> FALSE, port |-> DefaultPort]
    /\ uipc = "idle"
    /\ pc = "bind"
    /\ interval = 0
    /\ hold = 0
    /\ sending = FALSE
    /\ port = 0
    /\ prev_sending = FALSE
    /\ dur = 0
    /\ rem = 0
    /\ splits = 0
    /\ lastVal = -1
    /\ lastPort = 0
    /\ lastOk = TRUE
    /\ iterPackets = 0
    /\ prevSnapSending = FALSE
    /\ stateAtLock = state
    /\ edge = NoEdge
    /\ sinceDisable = -1
    /\ sincePress = -1
    /\ pressGap = -1
    /\ relGap = -1
    /\ stable = TRUE
    /\ stablePrev = TRUE
    /\ sinceEnable = -1
    /\ lastNudge = NoNudge

NextCoerce ==
    \/ EngineBindOk
    \/ EngineLock
    \/ EngineCopyInterval
    \/ EngineCopyHold
    \/ EngineCopySending
    \/ EngineCopyPort
    \/ \E o \in Outcomes : EnginePress(o)
    \/ \E o \in Outcomes : EngineRelease(o)
    \/ EngineRestDone
    \/ \E o \in Outcomes : EngineDisableRelease(o)
    \/ EngineNoRelease
    \/ EngineIdleDone
    \/ Advance(rem)
    \/ UiCheckbox
    \/ UiLock
    \/ UiWriteSending

SpecCoerce == InitCoerce /\ [][NextCoerce]_vars

\* The program after the port buttons have brought the port to either end of its
\* range (4500 "-" clicks or 28267 "+" clicks from the default), or not at all;
\* the sliders are left alone.
PortAnchors == {0, DefaultPort, PortMax}

InitPort ==
    /\ state \in [interval_ms : {DefaultInterval}, hold_ms : {DefaultHold},
                  is_sending : {FALSE}, dest_port : PortAnchors]
    /\ lock = "none"
    /\ app = [interval_ms |-> DefaultInterval, hold_ms |-> DefaultHold,
              checked |-> FALSE, port |-> state.dest_port]
    /\ uipc = "idle"
    /\ pc = "bind"
    /\ interval = 0
    /\ hold = 0
    /\ sending = FALSE
    /\ port = 0
    /\ prev_sending = FALSE
    /\ dur = 0
    /\ rem = 0
    /\ splits = 0
    /\ lastVal = -1
    /\ lastPort = 0
    /\ lastOk = TRUE
    /\ iterPackets = 0
    /\ prevSnapSending = FALSE
    /\ stateAtLock = state
    /\ edge = NoEdge
    /\ sinceDisable = -1
    /\ sincePress = -1
    /\ pressGap = -1
    /\ relGap = -1
    /\ stable = TRUE
    /\ stablePrev = TRUE
    /\ sinceEnable = -1
    /\ lastNudge = NoNudge

NextPort ==
    \/ EngineBindOk
    \/ EngineBindFail
    \/ EngineLock
    \/ EngineCopyInterval
    \/ EngineCopyHold
    \/ EngineCopySending
    \/ EngineCopyPort
    \/ \E o \in Outcomes : EnginePress(o)
    \/ \E o \in Outcomes : EngineRelease(o)
    \/ EngineRestDone
    \/ \E o \in Outcomes : EngineDisableRelease(o)
    \/ EngineNoRelease
    \/ EngineIdleDone
    \/ Advance(rem)
    \/ UiCheckbox
    \/ \E delta \in {-2, 2} : UiNudge(delta)
    \/ UiLock
    \/ UiWriteSending
    \/ UiWritePort

SpecPort == InitPort /\ [][NextPort]_vars

\* Scheduling of the two threads around the mutex. A thread that is runnable
\* runs: the engine inside its snapshot block and the UI inside a write go on to
\* release the lock. A thread blocked in lock() gets the mutex once it has been
\* free often enough. Nothing is assumed about sleeps, sends or UI events; the
\* sliders are left alone.
CopyPcs == {"copy_interval", "copy_hold", "copy_sending", "copy_port"}
UiLockPcs == {"lock_interval", "lock_hold", "lock_sending", "lock_port"}
UiWritePcs == {"write_interval", "write_hold", "write_sending", "write_port"}

LockFairness ==
    /\ SF_vars(EngineLock)
    /\ WF_vars(EngineCopyInterval \/ EngineCopyHold \/ EngineCopySending \/ EngineCopyPort)
    /\ SF_vars(UiLock)
    /\ WF_vars(UiWriteInterval \/ UiWriteHold \/ UiWriteSending \/ UiWritePort)

SpecLock == Init /\ [][NextPort]_vars /\ LockFairness

\* Scheduling of the engine thread: besides the above, bind returns, every
\* sleep ends and the thread goes on to its next statement.
EngineFairness ==
    /\ WF_vars(EngineBindOk \/ EngineBindFail)
    /\ WF_vars(\E o \in Outcomes : EnginePress(o))
    /\ WF_vars(\E o \in Outcomes : EngineRelease(o))
    /\ WF_vars(EngineRestDone)
    /\ WF_vars((\E o \in Outcomes : EngineDisableRelease(o)) \/ EngineNoRelease)
    /\ WF_vars(EngineIdleDone)
    /\ WF_vars(\E d \in AdvanceChoices : Advance(d))

\* The checkbox and the interval slider against the engine, with UI events
\* falling inside the sleeps; the default hold of 80 is both shorter and longer
\* than an interval the slider can choose.
NextLive ==
    \/ EngineBindOk
    \/ EngineBindFail
    \/ EngineLock
    \/ EngineCopyInterval
    \/ EngineCopyHold
    \/ EngineCopySending
    \/ EngineCopyPort
    \/ \E o \in Outcomes : EnginePress(o)
    \/ \E o \in Outcomes : EngineRelease(o)
    \/ EngineRestDone
    \/ \E o \in Outcomes : EngineDisableRelease(o)
    \/ EngineNoRelease
    \/ EngineIdleDone
    \/ \E d \in AdvanceChoices : Advance(d)
    \/ \E v \in IntervalValues : UiSliderInterval(v)
    \/ UiCheckbox
    \/ UiLock
    \/ UiWriteInterval
    \/ UiWriteSending

SpecLive == Init /\ [][NextLive]_vars /\ LockFairness /\ EngineFairness

\* nudge_port as a function of the port and of its i32 argument: the port starts
\* at an anchor, the argument ranges over NudgeDeltas, and the engine thread is
\* left out.
NudgeDeltas == {-I32Max - 1, -100, -2, -1, 0, 1, 2, 100, I32Max}

NextNudge ==
    \/ \E delta \in NudgeDeltas : UiNudge(delta)
    \/ UiCheckbox
    \/ UiLock
    \/ UiWriteSending
    \/ UiWritePort

SpecNudge == InitPort /\ [][NextNudge]_vars

----------------------------------------------------------------------------
(* Claims *)

\* The engine is in its SENDING state: it has observed is_sending = true and has
\* not yet gone through the disabled path.
InSending == prev_sending \/ (sending /\ pc \in {"press", "hold"})

\* C1 (as claimed): every true->false write of is_sending is followed by exactly
\* one value=0 packet: never a second one, and not none once the engine has run
\* an iteration on the disabled record.
C1_ExactlyOneReleasePerEdge ==
    edge.seen =>
        /\ edge.rel <= 1
        /\ (pc = "idle" /\ stable /\ ~stateAtLock.is_sending) => edge.rel = 1

\* C1 (amended): per true->false write of is_sending the engine emits at most one
\* disable release (main.rs:63) before is_sending is set again, and exactly one
\* once it has observed the edge, i.e. once a snapshot with is_sending = false
\* has followed a snapshot with is_sending = true.
C1_OneDisableReleasePerObservedEdge ==
    /\ edge.disRel <= 1
    /\ (edge.seen /\ pc = "idle" /\ stable /\ ~stateAtLock.is_sending /\ prevSnapSending)
            => (edge.disRel = 1 /\ lastVal = 0)

\* C1 witness: is_sending was cleared during a hold sleep; the pulse's own release
\* and then the one disable release have followed the edge.
C1_Witness ==
    /\ edge.seen
    /\ edge.rel = 2
    /\ edge.disRel = 1
    /\ pc = "idle"

\* C2 (as claimed): a disable written while the engine is pulsing is acted on no
\* later than interval_ms (of the shared record) after the write.
C2_DisableWithinSharedInterval ==
    sinceDisable # -1 => sinceDisable <= state.interval_ms

\* C2 (amended): a disable written while the engine is pulsing, and not undone,
\* is still unobserved only while the engine is in the iteration it was written
\* in, and for no longer than that iteration lasts: the interval of the
\* iteration's snapshot when its hold < interval, else hold + 1. By the time the
\* engine sleeps idle it has emitted the release.
C2_DisableWithinIteration ==
    /\ (sinceDisable # -1 /\ pc \in {"press", "hold", "rest", "snap"}) =>
            sinceDisable <= (IF hold < interval THEN interval ELSE hold + 1)
    /\ pc = "idle" => sinceDisable = -1

\* C2 witness: the disable was written at the very start of a pulse whose hold is
\* below its interval; the engine observes it a full interval later.
C2_Witness ==
    /\ pc = "snap"
    /\ prev_sending
    /\ ~state.is_sending
    /\ hold < interval
    /\ sinceDisable = interval

\* C3: after a value=1 emission the engine is in the hold sleep of that pulse, and
\* the next emission is a value=0 to the same port when exactly that sleep has
\* passed; no sleep but the hold sleep has a press as the latest emission.
C3_PressAlwaysReleased ==
    /\ [](lastVal = 1 => pc = "hold")
    /\ [][lastVal = 1 =>
            \/ /\ lastVal' = 1
               /\ pc' = "hold"
               /\ lastPort' = lastPort
               /\ iterPackets' = iterPackets
            \/ /\ lastVal' = 0
               /\ lastPort' = lastPort
               /\ rem = 0
               /\ sincePress = (IF hold >= 1 THEN hold ELSE 1)]_vars

\* C3 witness: a pulse was released to the port of its press although is_sending
\* was cleared and dest_port changed while it was held.
C3_Witness ==
    /\ pc = "rest"
    /\ lastVal = 0
    /\ lastPort = port
    /\ state.dest_port # port
    /\ ~state.is_sending

\* C4: an iteration whose snapshot has is_sending = false emits one packet when
\* the previous snapshot had is_sending = true, and none otherwise.
C4_IdempotentDisable ==
    /\ pc = "check" => iterPackets = 0
    /\ pc = "idle" => iterPackets = (IF prevSnapSending THEN 1 ELSE 0)

\* C4 witness: the disable release is out and a later iteration, is_sending still
\* false, has emitted nothing.
C4_Witness ==
    /\ pc = "idle"
    /\ edge.disRel = 1
    /\ ~prevSnapSending
    /\ iterPackets = 0
    /\ lastVal = 0

\* C5: with the record unwritten since before the previous pulse and
\* hold < interval, a release is emitted exactly hold after its press and a press
\* exactly interval after the previous press.
C5_PulseCadence ==
    /\ pc = "rest" => relGap = hold
    /\ (pc = "hold" /\ pressGap # -1 /\ hold < interval) => pressGap = interval

\* C5 witness: the default configuration, second press 1000 ms after the first.
C5_Witness ==
    /\ pc = "hold"
    /\ interval = DefaultInterval
    /\ hold = DefaultHold
    /\ pressGap = DefaultInterval

\* C6: every sleep of the engine lasts at least 1: max(hold, 1) for the hold,
\* max(interval - hold, 1) with the difference cut off at 0 for the rest, and
\* max(interval, 1) when idle.
C6_SleepsAtLeastOne ==
    pc \in SleepPcs =>
        /\ dur >= 1
        /\ pc = "hold" => dur = (IF hold >= 1 THEN hold ELSE 1)
        /\ pc = "rest" => dur = (IF interval - hold >= 1 THEN interval - hold ELSE 1)
        /\ pc = "idle" => dur = (IF interval >= 1 THEN interval ELSE 1)

\* C6 witness: a rest sleep of 1 with interval_ms = 0 and hold_ms above it.
C6_Witness ==
    /\ pc = "rest"
    /\ interval = 0
    /\ hold > interval
    /\ dur = 1

\* C7 (as claimed): dest_port does not change while the engine is in SENDING.
C7_NoRetargetWhileSending ==
    [][InSending => state'.dest_port = state.dest_port]_vars

\* C8 (as claimed): once the bind has failed nothing edits the configuration any
\* more, the program being gone.
C8_BindFailureEndsProgram ==
    [][pc = "panicked" => (state' = state /\ app' = app)]_vars

\* C9: whatever the outcome of an emission, the engine goes on to the step that
\* follows it, with the sleep and prev_sending of a successful emission, having
\* attempted it once; it never ends.
C9_FailuresSwallowed ==
    [][ /\ pc \notin {"bind", "panicked"} => pc' # "panicked"
        /\ (pc = "press" /\ pc' # pc) =>
              /\ pc' = "hold"
              /\ dur' = (IF hold >= 1 THEN hold ELSE 1)
              /\ prev_sending' = prev_sending
              /\ iterPackets' = iterPackets + 1
        /\ (pc = "hold" /\ pc' # pc) =>
              /\ pc' = "rest"
              /\ prev_sending'
              /\ iterPackets' = iterPackets + 1
        /\ (pc = "check" /\ pc' # pc) =>
              /\ pc' = "idle"
              /\ ~prev_sending'
              /\ iterPackets' = iterPackets + (IF prev_sending THEN 1 ELSE 0)
      ]_vars

\* C9 witness: the press failed and the engine is in the hold sleep all the same.
C9_Witness ==
    /\ pc = "hold"
    /\ lastVal = 1
    /\ ~lastOk

\* C10: the tuple the engine holds is the record as it was when the engine took
\* the lock, and the record is not written while the engine copies it.
C10_SnapshotConsistent ==
    /\ pc \in {"copy_interval", "copy_hold", "copy_sending", "copy_port"} =>
            state = stateAtLock
    /\ pc \in {"copy_hold", "copy_sending", "copy_port"} =>
            interval = stateAtLock.interval_ms
    /\ pc \in {"copy_sending", "copy_port"} => hold = stateAtLock.hold_ms
    /\ pc = "copy_port" => sending = stateAtLock.is_sending
    /\ pc \in {"press", "hold", "rest", "check", "idle"} =>
            << interval, hold, sending, port >> =
                << stateAtLock.interval_ms, stateAtLock.hold_ms,
                   stateAtLock.is_sending, stateAtLock.dest_port >>

\* C10 witness: the UI wants to write hold_ms while the engine is in the middle
\* of its copy.
C10_Witness ==
    /\ pc = "copy_sending"
    /\ uipc = "lock_hold"
    /\ app.hold_ms # state.hold_ms

----------------------------------------------------------------------------
\* C11: in every reachable state the port, in AppState and in the UI's copy of it,
\* is even and lies in 0 .. 65534, so the port + 1 of the status line is at most
\* 65535; this holds from the default and from either end of the range.
C11_PortEvenInRange ==
    /\ state.dest_port \in 0 .. PortMax
    /\ state.dest_port % 2 = 0
    /\ app.port \in 0 .. PortMax
    /\ app.port % 2 = 0
    /\ app.port + 1 <= U16Mod - 1

\* "+" was clicked at the top of the range, after the port had been moved and
\* moved back
C11_Witness ==
    /\ lastNudge = [from |-> PortMax, delta |-> 2, wrote |-> FALSE]
    /\ state.dest_port = PortMax
    /\ stateAtLock.dest_port = PortMax - 2

----------------------------------------------------------------------------
\* min(max(current + delta, 0), 65534) with the low bit cleared, the sum taken
\* over the integers
C12_Clamped(current, delta) ==
    IF delta > PortMax - current THEN PortMax
    ELSE IF delta < -current THEN 0
    ELSE (current + delta) - ((current + delta) % 2)

\* C12: nudge_port is total and clamping: for every port in 0 .. 65534 and every
\* i32 delta the call completes without a panic and leaves the port at
\* min(max(port + delta, 0), 65534) with the low bit cleared.
C12_NudgeTotalAndClamping ==
    lastNudge.from # -1 =>
        /\ uipc # "panicked"
        /\ (IF lastNudge.wrote THEN app.port ELSE lastNudge.from)
               = C12_Clamped(lastNudge.from, lastNudge.delta)

----------------------------------------------------------------------------
\* C13: lock discipline and progress. The engine owns the mutex only while it
\* copies the four fields, never in a sleep or next to a send; the UI owns it
\* only inside a write; the mutex is only ever taken when it is free; and a
\* thread that asks for the mutex gets it, whether or not any sleep of the
\* engine ever ends.
C13_LockDiscipline ==
    /\ [](lock = "engine" <=> pc \in CopyPcs)
    /\ [](lock = "ui" <=> uipc \in UiWritePcs)
    /\ [][lock' # lock /\ lock' # "none" => lock = "none"]_vars
    /\ (uipc \in UiLockPcs ~> uipc \in UiWritePcs)
    /\ (pc = "snap" ~> pc \in CopyPcs)

\* the UI asks for the mutex while the engine is inside its snapshot block
C13_Witness ==
    /\ uipc \in UiLockPcs
    /\ lock = "engine"
    /\ pc = "copy_hold"

----------------------------------------------------------------------------
\* C14: one snapshot per iteration. From the end of the snapshot block to the
\* end of the iteration the engine's interval, hold, enabled flag and port are
\* those AppState had when the lock was taken, whatever the UI has written
\* since: the branch taken, the port of the press and of either release and the
\* length of the hold, rest and idle sleeps are all computed from them. While
\* the engine copies, AppState is what it was when the lock was taken, so every
\* write completed before is in the snapshot.
C14_OneSnapshotPerIteration ==
    /\ pc \in {"press", "hold", "rest", "check", "idle"} =>
           /\ interval = stateAtLock.interval_ms
           /\ hold = stateAtLock.hold_ms
           /\ sending = stateAtLock.is_sending
           /\ port = stateAtLock.dest_port
    /\ pc \in {"press", "hold", "rest"} => stateAtLock.is_sending
    /\ pc \in {"check", "idle"} => ~stateAtLock.is_sending
    /\ pc = "hold" =>
           /\ lastVal = 1 /\ lastPort = stateAtLock.dest_port
           /\ dur = Max(stateAtLock.hold_ms, 1)
    /\ pc = "rest" =>
           /\ lastVal = 0 /\ lastPort = stateAtLock.dest_port
           /\ dur = Max(SaturatingSub(stateAtLock.interval_ms, stateAtLock.hold_ms), 1)
    /\ pc = "idle" =>
           /\ dur = Max(stateAtLock.interval_ms, 1)
           /\ iterPackets > 0 => (lastVal = 0 /\ lastPort = stateAtLock.dest_port)
    /\ pc \in CopyPcs => state = stateAtLock

\* every field of AppState has been rewritten since the snapshot of a pulse
\* that is now in its rest sleep
C14_Witness ==
    /\ pc = "rest"
    /\ state.interval_ms # stateAtLock.interval_ms
    /\ state.hold_ms # stateAtLock.hold_ms
    /\ state.is_sending # stateAtLock.is_sending
    /\ state.dest_port # stateAtLock.dest_port

----------------------------------------------------------------------------
\* C15: frame of the writes. No step of the engine thread changes AppState, and
\* the step that completes a UI write changes the one field the write is for
\* (the interval slider interval_ms, the hold slider hold_ms, the checkbox
\* is_sending, a nudge dest_port) and leaves the other three as they were.
C15_WritesChangeOneField ==
    [][ /\ (pc' # pc \/ rem' # rem \/ lock' = "engine" \/ lock = "engine") => state' = state
        /\ state' # state => uipc \in UiWritePcs
        /\ (uipc = "write_interval" /\ uipc' # uipc) =>
               /\ state'.interval_ms # state.interval_ms
               /\ state' = [state EXCEPT !.interval_ms = state'.interval_ms]
        /\ (uipc = "write_hold" /\ uipc' # uipc) =>
               /\ state'.hold_ms # state.hold_ms
               /\ state' = [state EXCEPT !.hold_ms = state'.hold_ms]
        /\ (uipc = "write_sending" /\ uipc' # uipc) =>
               /\ state'.is_sending # state.is_sending
               /\ state' = [state EXCEPT !.is_sending = state'.is_sending]
        /\ (uipc = "write_port" /\ uipc' # uipc) =>
               /\ state'.dest_port # state.dest_port
               /\ state' = [state EXCEPT !.dest_port = state'.dest_port]
      ]_vars

\* the hold has been written, and nothing else, since the engine's snapshot
C15_Witness ==
    /\ uipc = "idle"
    /\ ~stable
    /\ state.hold_ms # stateAtLock.hold_ms
    /\ state = [stateAtLock EXCEPT !.hold_ms = state.hold_ms]
    /\ pc \in SleepPcs

----------------------------------------------------------------------------
\* C16: a nudge whose clamped even result is the current port ("-" at 0, "+" at
\* 65534) takes no lock and writes nothing: the call returns with the UI's port,
\* AppState and the owner of the mutex as they were, and with no lock request
\* left behind.
C16_NoOpNudgeWritesNothing ==
    [][ ( /\ lastNudge' # lastNudge
          /\ lastNudge'.from # -1
          /\ C12_Clamped(lastNudge'.from, lastNudge'.delta) = lastNudge'.from )
        => /\ app' = app
           /\ state' = state
           /\ lock' = lock
           /\ uipc' = "idle"
      ]_vars

\* "-" was clicked at port 0 while the engine was inside its snapshot block
C16_Witness ==
    /\ lastNudge = [from |-> 0, delta |-> -2, wrote |-> FALSE]
    /\ app.port = 0
    /\ state.dest_port = 0
    /\ uipc = "idle"
    /\ lock = "engine"

----------------------------------------------------------------------------
\* C17: when the engine takes a snapshot, prev_sending is the enabled flag of
\* the previous iteration's snapshot (false before the first), whether that
\* iteration ended through `continue` or through the disabled path; it keeps
\* that value until the iteration has branched.
C17_PrevIsPreviousSnapshot ==
    /\ pc = "snap" => prev_sending = sending
    /\ pc \in CopyPcs \cup {"press", "check"} => prev_sending = prevSnapSending
    /\ pc = "bind" => ~prev_sending

\* the snapshot after a pulse is being taken, and it will read enabled = false
C17_Witness ==
    /\ pc = "copy_interval"
    /\ prev_sending
    /\ prevSnapSending
    /\ ~state.is_sending
    /\ lastVal = 0

----------------------------------------------------------------------------
\* C18: the release sent on the disable edge (prev_sending true, enabled false)
\* goes to the port of the packets of the pulse before it, under every
\* interleaving of checkbox and port button events.
C18_DisableReleaseSamePort ==
    [][ (pc = "check" /\ prev_sending /\ pc' = "idle") => lastPort' = lastPort ]_vars

----------------------------------------------------------------------------
\* C19: whenever the UI is between two update() calls, its own interval_ms,
\* hold_ms, checked and port equal interval_ms, hold_ms, is_sending and
\* dest_port of AppState, from the defaults (1000, 80, false, 9000) on.
C19_MirrorAgrees ==
    uipc = "idle" =>
        /\ app.interval_ms = state.interval_ms
        /\ app.hold_ms = state.hold_ms
        /\ app.checked = state.is_sending
        /\ app.port = state.dest_port

\* every widget has been used, the checkbox twice, and the UI is at rest
C19_Witness ==
    /\ uipc = "idle"
    /\ app.interval_ms # DefaultInterval
    /\ app.hold_ms # DefaultHold
    /\ app.port # DefaultPort
    /\ ~app.checked
    /\ prev_sending
    /\ state = [interval_ms |-> app.interval_ms, hold_ms |-> app.hold_ms,
                is_sending |-> app.checked, dest_port |-> app.port]

----------------------------------------------------------------------------
\* Length of the iteration the engine is in, and the part of it that has passed
C20_IterationLength ==
    IF sending THEN HoldSleep(hold) + RestSleep(interval, hold) ELSE IdleSleep(interval)

C20_IterationElapsed ==
    (IF pc = "rest" THEN HoldSleep(hold) ELSE 0) + (dur - rem)

\* C20 as stated: a press follows an enable no later than the end of the sleep
\* the engine was in when enabled was set, which is at most max(interval, 1) of
\* that sleep's snapshot.
C20_PressBySleepEnd ==
    (sinceEnable # -1 /\ pc \in SleepPcs) =>
        /\ sinceEnable <= dur - rem
        /\ sinceEnable <= Max(interval, 1)

\* C20: enabling takes effect. An enable that has not been pressed for is still
\* in AppState, was written during the engine's current iteration, and is
\* acted on by the snapshot that ends this iteration; unless the bind failed or
\* the box is unchecked again the press comes, and while the box stays checked
\* presses recur for ever.
C20_EnableTakesEffect ==
    /\ [](sinceEnable # -1 => state.is_sending)
    /\ []((sinceEnable # -1 /\ pc \in SleepPcs) => sinceEnable <= C20_IterationElapsed)
    /\ []((sinceEnable # -1 /\ pc \in SleepPcs \cup {"snap"}) =>
               sinceEnable <= C20_IterationLength)
    /\ (sinceEnable # -1 ~> (sinceEnable = -1 \/ pc = "panicked"))
    /\ ([]<>(~state.is_sending) \/ []<>(pc = "hold") \/ <>(pc = "panicked"))

\* the box was unchecked and checked again at the start of a hold sleep that
\* outlasts the interval; the press for it is still a rest sleep away
C20_Witness ==
    /\ sinceEnable > Max(interval, 1)
    /\ pc = "rest"
    /\ state.is_sending

====
